---- MODULE Spec2Model ----
(***************************************************************************)
(* Model of programs/multisig/src/lib.rs: an Anchor program in which the   *)
(* members of a Multisig propose, approve, execute and cancel a stored     *)
(* instruction.  Every instruction of the program is one atomic step: the  *)
(* account constraints of its #[derive(Accounts)] struct are validated,    *)
(* the handler runs on the deserialized accounts, and the accounts are     *)
(* written back (and closed, where `close = multisig` says so) only when   *)
(* the handler returns Ok.  An Err at any point leaves every account as it *)
(* was.                                                                    *)
(***************************************************************************)
EXTENDS Integers, Sequences, FiniteSets, TLC

\* ---------------------------------------------------------------- bounds
NumKeys == 2          \* public keys are 1..NumKeys, ordered as Pubkey is
MaxNonce == 0         \* nonces offered to create_multisig are 0..MaxNonce
MaxMembers == 2       \* longest member list offered to create_multisig
MaxProposals == 1     \* propose_transaction is offered while fewer exist
MaxCount == 2         \* proposals_count up to which a Multisig is followed
MaxAccounts == 2      \* longest remaining_accounts list offered to execute_transaction
MaxSmallCount == 10   \* member counts 1..MaxSmallCount are given to create_multisig one by one

\* ------------------------------------------------------ program constants
U8 == 256             \* `as u8` keeps the value modulo 2^8
\* space = 8 + 32 + 1 + (32 * 10) + 1 + 4 + 1 of the Multisig account
MultisigSpace == 8 + 32 + 1 + (32 * 10) + 1 + 4 + 1

Keys == 1..NumKeys
Nonces == 0..MaxNonce

\* A Multisig lives at the address derived from (creator, nonce); a Proposal
\* at the address derived from (multisig address, proposals_count).
MsAddrs == Keys \X Nonces
PropAddrs == MsAddrs \X (0..(MaxCount - 1))

SeqsUpTo(S, n) == UNION {[1..k -> S] : k \in 0..n}

\* SerializableAccountMeta / AccountMeta
Meta(k, s, w) == [pubkey |-> k, is_signer |-> s, is_writable |-> w]
\* InstructionData: the instructions offered to propose_transaction, with
\* no, one and two accounts, either flag set and unset, two targets, two payloads
Instructions ==
    { [program_id |-> 1, accounts |-> <<>>, data |-> <<>>],
      [program_id |-> 2, accounts |-> <<Meta(2, TRUE, FALSE)>>, data |-> <<>>],
      [program_id |-> 1, accounts |-> <<Meta(1, FALSE, TRUE), Meta(2, TRUE, FALSE)>>,
       data |-> <<1>>] }
\* AccountInfo as far as the program reads it; the flags offered are the two
\* combinations the instructions above store, so they agree with the stored
\* flags in some executions and differ in others
Infos == {[key |-> k, is_signer |-> f, is_writable |-> ~f] : k \in Keys, f \in BOOLEAN}

VARIABLES
    multisigs,   \* address -> Multisig, for the Multisig accounts that exist
    proposals,   \* address -> Proposal, for the Proposal accounts that exist
    status,      \* address -> "none" | "pending" | "executed" | "cancelled"
    submitted,   \* address -> the instruction_data given to propose_transaction
    forwarded,   \* address -> the calls invoke_signed carried out for that Proposal
    cpiFailed,   \* Proposals for which invoke_signed has returned an error
    last         \* the instruction processed last: its inputs and its result

vars == <<multisigs, proposals, status, submitted, forwarded, cpiFailed, last>>

\* ------------------------------------------------------------- helpers
Contains(s, x) == \E i \in 1..Len(s) : s[i] = x

Range(s) == {s[i] : i \in 1..Len(s)}

\* The sorted sequences a and b merged, equal elements of a first.  The
\* middle element of a divides both, so that the depth of the recursion is
\* logarithmic in the length.
RECURSIVE Merge(_, _)
Merge(a, b) ==
    IF a = <<>> THEN b
    ELSE IF b = <<>> THEN a
    ELSE LET mid == (Len(a) + 1) \div 2
             below == Cardinality({j \in 1..Len(b) : b[j] < a[mid]})
         IN  Merge(SubSeq(a, 1, mid - 1), SubSeq(b, 1, below))
                 \o <<a[mid]>>
                 \o Merge(SubSeq(a, mid + 1, Len(a)), SubSeq(b, below + 1, Len(b)))

\* members.sort(): the stable merge sort of the slice
RECURSIVE Sort(_)
Sort(s) ==
    IF Len(s) <= 1 THEN s
    ELSE LET half == Len(s) \div 2 IN
         Merge(Sort(SubSeq(s, 1, half)), Sort(SubSeq(s, half + 1, Len(s))))

\* members.dedup(): of each run of equal consecutive elements the first is
\* kept; a run that crosses the middle is joined
RECURSIVE Dedup(_)
Dedup(s) ==
    IF Len(s) <= 1 THEN s
    ELSE LET half == Len(s) \div 2
             a == Dedup(SubSeq(s, 1, half))
             b == Dedup(SubSeq(s, half + 1, Len(s)))
         IN  IF a[Len(a)] = b[1] THEN a \o Tail(b) ELSE a \o b

\* impl From<SerializableAccountMeta> for AccountMeta
IntoAccountMeta(s) ==
    [pubkey |-> s.pubkey, is_signer |-> s.is_signer, is_writable |-> s.is_writable]

\* approval_set.len() of the BTreeSet collected from proposal.approvals
ApprovalSetLen(proposal) == Cardinality(Range(proposal.approvals))

\* No account exists
NoAccounts == [a \in {} |-> a]

\* The accounts of `f` and the account `a` holding `v` (created or overwritten)
Store(f, a, v) == [b \in DOMAIN f \cup {a} |-> IF b = a THEN v ELSE f[b]]

\* The accounts of `f` without `a`: the host reclaims a closed account
Close(f, a) == [b \in DOMAIN f \ {a} |-> f[b]]

\* The accounts and the host's record of calls, as one value
World == [multisigs |-> multisigs, proposals |-> proposals, forwarded |-> forwarded]

Init ==
    /\ multisigs = NoAccounts
    /\ proposals = NoAccounts
    /\ status = [p \in PropAddrs |-> "none"]
    /\ submitted = NoAccounts
    /\ forwarded = [p \in PropAddrs |-> <<>>]
    /\ cpiFailed = {}
    /\ last = [op |-> "none", res |-> "none"]

\* ------------------------------------------------------- create_multisig
\* #[derive(Accounts)] CreateMultisig: `init` needs the derived address to be free
CreateMultisig(creator, nonce) ==
    IF <<creator, nonce>> \in DOMAIN multisigs THEN "AccountInUse" ELSE "Ok"

\* create_multisig comparing the threshold with the length of the list as given
create_multisig_RawLen(creator, nonce, members_in, threshold) ==
    LET members == Dedup(Sort(members_in)) IN
    IF members = <<>> THEN [res |-> "InvalidMembers"]
    ELSE IF ~(threshold > 0 /\ threshold <= Len(members_in) % U8) THEN [res |-> "InvalidThreshold"]
    ELSE [res |-> "Ok",
          multisig |-> [creator |-> creator, nonce |-> nonce, members |-> members,
                        threshold |-> threshold, proposals_count |-> 0]]

\* create_multisig without `members.sort()`
create_multisig_NoSort(creator, nonce, members_in, threshold) ==
    LET members == Dedup(members_in) IN
    IF members = <<>> THEN [res |-> "InvalidMembers"]
    ELSE IF ~(threshold > 0 /\ threshold <= Len(members) % U8) THEN [res |-> "InvalidThreshold"]
    ELSE [res |-> "Ok",
          multisig |-> [creator |-> creator, nonce |-> nonce, members |-> members,
                        threshold |-> threshold, proposals_count |-> 0]]

create_multisig(creator, nonce, members_in, threshold) ==
    LET members == Dedup(Sort(members_in)) IN
    IF members = <<>> THEN [res |-> "InvalidMembers"]
    ELSE IF ~(threshold > 0 /\ threshold <= Len(members) % U8) THEN [res |-> "InvalidThreshold"]
    ELSE [res |-> "Ok",
          multisig |-> [creator |-> creator, nonce |-> nonce, members |-> members,
                        threshold |-> threshold, proposals_count |-> 0]]

\* Bytes of the serialized Multisig: discriminator, creator, nonce, members
\* (a Vec: 4 bytes of length, 32 per Pubkey), threshold, proposals_count, bump
MultisigSize(multisig) == 8 + 32 + 1 + (4 + 32 * Len(multisig.members)) + 1 + 4 + 1

\* The instruction as a whole: what it returns and the world it leaves.  On
\* Ok the account is serialized into the `space` allocated by `init`, which
\* fails when the data does not fit.
CreateOutcome(creator, nonce, members_in, threshold) ==
    LET v == CreateMultisig(creator, nonce)
        h == create_multisig(creator, nonce, members_in, threshold)
    IN  IF v # "Ok" THEN [res |-> v, world |-> World]
        ELSE IF h.res # "Ok" THEN [res |-> h.res, world |-> World]
        ELSE IF MultisigSize(h.multisig) > MultisigSpace
             THEN [res |-> "AccountDidNotSerialize", world |-> World]
        ELSE [res |-> "Ok",
              world |-> [World EXCEPT !.multisigs = Store(multisigs, <<creator, nonce>>, h.multisig)]]

\* The handler's arguments matter only once the accounts are accepted
Create ==
    \E creator \in Keys, nonce \in Nonces :
    \E members_in \in IF CreateMultisig(creator, nonce) = "Ok"
                       THEN SeqsUpTo(Keys, MaxMembers) ELSE {<<>>},
       threshold \in IF CreateMultisig(creator, nonce) = "Ok"
                      THEN 0..(MaxMembers + 1) ELSE {0} :
        \E o \in {CreateOutcome(creator, nonce, members_in, threshold)} :
        /\ multisigs' = o.world.multisigs
        /\ proposals' = o.world.proposals
        /\ forwarded' = o.world.forwarded
        /\ last' = [op |-> "create_multisig", res |-> o.res]
        /\ UNCHANGED <<status, submitted, cpiFailed>>

\* --------------------------------------------------- propose_transaction
\* The address `init` derives from the seeds: multisig key and proposals_count
ProposalAddress(ms) == <<ms, multisigs[ms].proposals_count>>

\* #[derive(Accounts)] ProposeTransaction
ProposeTransaction(ms) ==
    IF ms \notin DOMAIN multisigs THEN "AccountNotInitialized"
    ELSE IF ProposalAddress(ms) \in DOMAIN proposals THEN "AccountInUse"
    ELSE "Ok"

\* propose_transaction without its NotMember check
propose_transaction_AnyProposer(ms, multisig, proposer, instruction_data) ==
    [res |-> "Ok",
     proposal |-> [multisig |-> ms, proposer |-> proposer,
                   instruction |-> instruction_data, approvals |-> <<>>,
                   executed |-> FALSE, cancelled |-> FALSE],
     multisig |-> [multisig EXCEPT !.proposals_count = @ + 1]]

\* propose_transaction without `proposals_count += 1`
propose_transaction_NoIncrement(ms, multisig, proposer, instruction_data) ==
    IF ~Contains(multisig.members, proposer) THEN [res |-> "NotMember"]
    ELSE [res |-> "Ok",
          proposal |-> [multisig |-> ms, proposer |-> proposer,
                        instruction |-> instruction_data, approvals |-> <<>>,
                        executed |-> FALSE, cancelled |-> FALSE],
          multisig |-> multisig]

propose_transaction(ms, multisig, proposer, instruction_data) ==
    IF ~Contains(multisig.members, proposer) THEN [res |-> "NotMember"]
    ELSE [res |-> "Ok",
          proposal |-> [multisig |-> ms, proposer |-> proposer,
                        instruction |-> instruction_data, approvals |-> <<>>,
                        executed |-> FALSE, cancelled |-> FALSE],
          multisig |-> [multisig EXCEPT !.proposals_count = @ + 1]]

ProposeOutcome(ms, proposer, instruction_data) ==
    LET v == ProposeTransaction(ms) IN
    IF v # "Ok" THEN [res |-> v, world |-> World]
    ELSE LET h == propose_transaction(ms, multisigs[ms], proposer, instruction_data) IN
         IF h.res # "Ok" THEN [res |-> h.res, world |-> World]
         ELSE [res |-> "Ok",
               world |-> [World EXCEPT
                            !.multisigs = Store(multisigs, ms, h.multisig),
                            !.proposals = Store(proposals, ProposalAddress(ms), h.proposal)]]

\* Proposals created so far, whatever became of them
Created == {p \in PropAddrs : status[p] # "none"}

Propose ==
    \E ms \in MsAddrs, proposer \in Keys, instruction_data \in Instructions :
        \E o \in {ProposeOutcome(ms, proposer, instruction_data)},
           p \in {IF ms \in DOMAIN multisigs THEN ProposalAddress(ms) ELSE <<ms, 0>>} :
        /\ o.res = "Ok" => /\ multisigs[ms].proposals_count < MaxCount
                            /\ Cardinality(Created) < MaxProposals
        /\ multisigs' = o.world.multisigs
        /\ proposals' = o.world.proposals
        /\ forwarded' = o.world.forwarded
        /\ status' = IF o.res = "Ok" THEN [status EXCEPT ![p] = "pending"] ELSE status
        /\ submitted' = IF o.res = "Ok" THEN Store(submitted, p, instruction_data) ELSE submitted
        /\ last' = [op |-> "propose_transaction", res |-> o.res]
        /\ UNCHANGED cpiFailed

\* --------------------------------------------------- approve_transaction
\* ApproveTransaction without its NotMember constraint on the approver
ApproveTransaction_AnyApprover(ms, p, approver) ==
    IF ms \notin DOMAIN multisigs THEN "AccountNotInitialized"
    ELSE IF p \notin DOMAIN proposals THEN "AccountNotInitialized"
    ELSE IF ~(proposals[p].multisig = ms) THEN "ConstraintRaw"
    ELSE IF ~(~proposals[p].executed /\ ~proposals[p].cancelled) THEN "AlreadyProcessed"
    ELSE "Ok"

\* #[derive(Accounts)] ApproveTransaction: the accounts are loaded in the order
\* of the struct, then the constraints are checked in the order written
ApproveTransaction(ms, p, approver) ==
    IF ms \notin DOMAIN multisigs THEN "AccountNotInitialized"
    ELSE IF p \notin DOMAIN proposals THEN "AccountNotInitialized"
    ELSE IF ~(proposals[p].multisig = ms) THEN "ConstraintRaw"
    ELSE IF ~(~proposals[p].executed /\ ~proposals[p].cancelled) THEN "AlreadyProcessed"
    ELSE IF ~Contains(multisigs[ms].members, approver) THEN "NotMember"
    ELSE "Ok"

\* approve_transaction without its AlreadyApproved check
approve_transaction_NoCheck(proposal, approver) ==
    [res |-> "Ok", proposal |-> [proposal EXCEPT !.approvals = Append(@, approver)]]

\* approve_transaction storing the approver in place of the approvals so far
approve_transaction_Overwrite(proposal, approver) ==
    IF Contains(proposal.approvals, approver) THEN [res |-> "AlreadyApproved"]
    ELSE [res |-> "Ok", proposal |-> [proposal EXCEPT !.approvals = <<approver>>]]

approve_transaction(proposal, approver) ==
    IF Contains(proposal.approvals, approver) THEN [res |-> "AlreadyApproved"]
    ELSE [res |-> "Ok", proposal |-> [proposal EXCEPT !.approvals = Append(@, approver)]]

ApproveOutcome(ms, p, approver) ==
    LET v == ApproveTransaction(ms, p, approver) IN
    IF v # "Ok" THEN [res |-> v, world |-> World]
    ELSE LET h == approve_transaction(proposals[p], approver) IN
         IF h.res # "Ok" THEN [res |-> h.res, world |-> World]
         ELSE [res |-> "Ok", world |-> [World EXCEPT !.proposals = Store(proposals, p, h.proposal)]]

Approve ==
    \E ms \in MsAddrs, p \in PropAddrs, approver \in Keys :
        \E o \in {ApproveOutcome(ms, p, approver)} :
        /\ multisigs' = o.world.multisigs
        /\ proposals' = o.world.proposals
        /\ forwarded' = o.world.forwarded
        /\ last' = [op |-> "approve_transaction", res |-> o.res]
        /\ UNCHANGED <<status, submitted, cpiFailed>>

\* --------------------------------------------------- execute_transaction
\* ExecuteTransaction without its quorum constraint
ExecuteTransaction_NoQuorum(ms, p, caller) ==
    IF ms \notin DOMAIN multisigs THEN "AccountNotInitialized"
    ELSE IF p \notin DOMAIN proposals THEN "AccountNotInitialized"
    ELSE IF ~(proposals[p].multisig = ms) THEN "ConstraintRaw"
    ELSE IF ~(~proposals[p].executed /\ ~proposals[p].cancelled) THEN "AlreadyProcessed"
    ELSE "Ok"

\* ExecuteTransaction without the constraint proposal.multisig == multisig.key()
ExecuteTransaction_AnyMultisig(ms, p, caller) ==
    IF ms \notin DOMAIN multisigs THEN "AccountNotInitialized"
    ELSE IF p \notin DOMAIN proposals THEN "AccountNotInitialized"
    ELSE IF ~(~proposals[p].executed /\ ~proposals[p].cancelled) THEN "AlreadyProcessed"
    ELSE IF ~(ApprovalSetLen(proposals[p]) >= multisigs[ms].threshold) THEN "NotExecutable"
    ELSE "Ok"

\* ExecuteTransaction that also wants the caller to be a member
ExecuteTransaction_MemberOnly(ms, p, caller) ==
    IF ms \notin DOMAIN multisigs THEN "AccountNotInitialized"
    ELSE IF p \notin DOMAIN proposals THEN "AccountNotInitialized"
    ELSE IF ~(proposals[p].multisig = ms) THEN "ConstraintRaw"
    ELSE IF ~(~proposals[p].executed /\ ~proposals[p].cancelled) THEN "AlreadyProcessed"
    ELSE IF ~(ApprovalSetLen(proposals[p]) >= multisigs[ms].threshold) THEN "NotExecutable"
    ELSE IF ~Contains(multisigs[ms].members, caller) THEN "NotMember"
    ELSE "Ok"

\* #[derive(Accounts)] ExecuteTransaction.  No account of it is a Signer:
\* whoever submits the instruction (`caller`) is not looked at.
ExecuteTransaction(ms, p, caller) ==
    IF ms \notin DOMAIN multisigs THEN "AccountNotInitialized"
    ELSE IF p \notin DOMAIN proposals THEN "AccountNotInitialized"
    ELSE IF ~(proposals[p].multisig = ms) THEN "ConstraintRaw"
    ELSE IF ~(~proposals[p].executed /\ ~proposals[p].cancelled) THEN "AlreadyProcessed"
    ELSE IF ~(ApprovalSetLen(proposals[p]) >= multisigs[ms].threshold) THEN "NotExecutable"
    ELSE "Ok"

\* execute_transaction that compares the lengths of the lists only
execute_transaction_LenOnly(multisig, proposal_in, remaining_accounts, cpi_ok) ==
    LET proposal == [proposal_in EXCEPT !.executed = TRUE]
        ix == proposal.instruction
        accounts == [i \in 1..Len(ix.accounts) |-> IntoAccountMeta(ix.accounts[i])]
        instruction == [program_id |-> ix.program_id, accounts |-> accounts, data |-> ix.data]
        signer == <<multisig.creator, multisig.nonce>>
    IN  IF ~(Len(accounts) = Len(remaining_accounts))
        THEN [res |-> "AccountMismatch", proposal |-> proposal, invoked |-> <<>>]
        ELSE IF ~cpi_ok
        THEN [res |-> "CpiFailed", proposal |-> proposal, invoked |-> <<>>]
        ELSE [res |-> "Ok", proposal |-> proposal,
              invoked |-> <<[instruction |-> instruction, signer |-> signer]>>]

\* execute_transaction that takes the flags of the call from remaining_accounts
execute_transaction_InfoFlags(multisig, proposal_in, remaining_accounts, cpi_ok) ==
    LET proposal == [proposal_in EXCEPT !.executed = TRUE]
        ix == proposal.instruction
        account_infos == remaining_accounts
        accounts == [i \in 1..Len(ix.accounts) |-> IntoAccountMeta(ix.accounts[i])]
        signer == <<multisig.creator, multisig.nonce>>
    IN  IF ~(Len(accounts) = Len(account_infos))
        THEN [res |-> "AccountMismatch", proposal |-> proposal, invoked |-> <<>>]
        ELSE IF \E i \in 1..Len(accounts) : ~(accounts[i].pubkey = account_infos[i].key)
        THEN [res |-> "AccountMismatch", proposal |-> proposal, invoked |-> <<>>]
        ELSE IF ~cpi_ok
        THEN [res |-> "CpiFailed", proposal |-> proposal, invoked |-> <<>>]
        ELSE [res |-> "Ok", proposal |-> proposal,
              invoked |-> <<[instruction |->
                               [program_id |-> ix.program_id,
                                accounts |-> [i \in 1..Len(accounts) |->
                                    Meta(accounts[i].pubkey, account_infos[i].is_signer,
                                         account_infos[i].is_writable)],
                                data |-> ix.data],
                             signer |-> signer]>>]

\* The handler, on the deserialized accounts.  `cpi_ok` is whether the host
\* carries out the call given to invoke_signed; `invoked` is that call.
execute_transaction(multisig, proposal_in, remaining_accounts, cpi_ok) ==
    LET proposal == [proposal_in EXCEPT !.executed = TRUE]
        ix == proposal.instruction
        account_infos == remaining_accounts
        accounts == [i \in 1..Len(ix.accounts) |-> IntoAccountMeta(ix.accounts[i])]
        instruction == [program_id |-> ix.program_id, accounts |-> accounts, data |-> ix.data]
        signer == <<multisig.creator, multisig.nonce>>
    IN  IF ~(Len(accounts) = Len(account_infos))
        THEN [res |-> "AccountMismatch", proposal |-> proposal, invoked |-> <<>>]
        ELSE IF \E i \in 1..Len(accounts) : ~(accounts[i].pubkey = account_infos[i].key)
        THEN [res |-> "AccountMismatch", proposal |-> proposal, invoked |-> <<>>]
        ELSE IF ~cpi_ok
        THEN [res |-> "CpiFailed", proposal |-> proposal, invoked |-> <<>>]
        ELSE [res |-> "Ok", proposal |-> proposal,
              invoked |-> <<[instruction |-> instruction, signer |-> signer]>>]

\* ExecuteOutcome without `close = multisig`: the Proposal is written back only
ExecuteOutcome_NoClose(ms, p, caller, remaining_accounts, cpi_ok) ==
    LET v == ExecuteTransaction(ms, p, caller) IN
    IF v # "Ok" THEN [res |-> v, world |-> World]
    ELSE LET h == execute_transaction(multisigs[ms], proposals[p], remaining_accounts, cpi_ok) IN
         IF h.res # "Ok" THEN [res |-> h.res, world |-> World]
         ELSE [res |-> "Ok",
               world |-> [World EXCEPT
                            !.proposals = Store(proposals, p, h.proposal),
                            !.forwarded = [forwarded EXCEPT ![p] = @ \o h.invoked]]]

\* ExecuteOutcome that keeps what the handler wrote when the handler fails
ExecuteOutcome_KeepOnErr(ms, p, caller, remaining_accounts, cpi_ok) ==
    LET v == ExecuteTransaction(ms, p, caller) IN
    IF v # "Ok" THEN [res |-> v, world |-> World]
    ELSE LET h == execute_transaction(multisigs[ms], proposals[p], remaining_accounts, cpi_ok) IN
         IF h.res # "Ok"
         THEN [res |-> h.res,
               world |-> [World EXCEPT !.proposals = Store(proposals, p, h.proposal)]]
         ELSE [res |-> "Ok",
               world |-> [World EXCEPT
                            !.proposals = Close(Store(proposals, p, h.proposal), p),
                            !.forwarded = [forwarded EXCEPT ![p] = @ \o h.invoked]]]

\* ExecuteOutcome that neither writes the Proposal back nor closes it
ExecuteOutcome_NotRetired(ms, p, caller, remaining_accounts, cpi_ok) ==
    LET v == ExecuteTransaction(ms, p, caller) IN
    IF v # "Ok" THEN [res |-> v, world |-> World]
    ELSE LET h == execute_transaction(multisigs[ms], proposals[p], remaining_accounts, cpi_ok) IN
         IF h.res # "Ok" THEN [res |-> h.res, world |-> World]
         ELSE [res |-> "Ok",
               world |-> [World EXCEPT !.forwarded = [forwarded EXCEPT ![p] = @ \o h.invoked]]]

\* ExecuteOutcome that compares remaining_accounts with the stored accounts
\* before the constraints on the Proposal are checked
ExecuteOutcome_AccountsFirst(ms, p, caller, remaining_accounts, cpi_ok) ==
    LET v == ExecuteTransaction(ms, p, caller) IN
    IF ms \in DOMAIN multisigs /\ p \in DOMAIN proposals
       /\ execute_transaction(multisigs[ms], proposals[p], remaining_accounts, cpi_ok).res
              = "AccountMismatch"
    THEN [res |-> "AccountMismatch", world |-> World]
    ELSE IF v # "Ok" THEN [res |-> v, world |-> World]
    ELSE LET h == execute_transaction(multisigs[ms], proposals[p], remaining_accounts, cpi_ok) IN
         IF h.res # "Ok" THEN [res |-> h.res, world |-> World]
         ELSE [res |-> "Ok",
               world |-> [World EXCEPT
                            !.proposals = Close(Store(proposals, p, h.proposal), p),
                            !.forwarded = [forwarded EXCEPT ![p] = @ \o h.invoked]]]

\* On Ok the Proposal is written back and then closed (`close = multisig`);
\* on Err nothing the handler did is kept.
ExecuteOutcome(ms, p, caller, remaining_accounts, cpi_ok) ==
    LET v == ExecuteTransaction(ms, p, caller) IN
    IF v # "Ok" THEN [res |-> v, world |-> World]
    ELSE LET h == execute_transaction(multisigs[ms], proposals[p], remaining_accounts, cpi_ok) IN
         IF h.res # "Ok" THEN [res |-> h.res, world |-> World]
         ELSE [res |-> "Ok",
               world |-> [World EXCEPT
                            !.proposals = Close(Store(proposals, p, h.proposal), p),
                            !.forwarded = [forwarded EXCEPT ![p] = @ \o h.invoked]]]

\* remaining_accounts and the host's verdict on the call matter only once the
\* accounts are accepted and the handler runs
Execute ==
    \E ms \in MsAddrs, p \in PropAddrs, caller \in Keys :
    \E remaining_accounts \in IF ExecuteTransaction(ms, p, caller) = "Ok"
                               THEN SeqsUpTo(Infos, MaxAccounts) ELSE {<<>>},
       cpi_ok \in IF ExecuteTransaction(ms, p, caller) = "Ok" THEN BOOLEAN ELSE {TRUE} :
        \E o \in {ExecuteOutcome(ms, p, caller, remaining_accounts, cpi_ok)} :
        /\ multisigs' = o.world.multisigs
        /\ proposals' = o.world.proposals
        /\ forwarded' = o.world.forwarded
        /\ status' = IF o.res = "Ok" THEN [status EXCEPT ![p] = "executed"] ELSE status
        /\ cpiFailed' = IF o.res = "CpiFailed" THEN cpiFailed \cup {p} ELSE cpiFailed
        /\ last' = [op |-> "execute_transaction", res |-> o.res]
        /\ UNCHANGED submitted

\* ---------------------------------------------------- cancel_transaction
\* CancelTransaction without its NotProposer constraint
CancelTransaction_AnyCaller(ms, p, canceller) ==
    IF ms \notin DOMAIN multisigs THEN "AccountNotInitialized"
    ELSE IF p \notin DOMAIN proposals THEN "AccountNotInitialized"
    ELSE IF ~(proposals[p].multisig = ms) THEN "ConstraintRaw"
    ELSE IF ~(~proposals[p].executed /\ ~proposals[p].cancelled) THEN "AlreadyProcessed"
    ELSE "Ok"

\* #[derive(Accounts)] CancelTransaction
CancelTransaction(ms, p, canceller) ==
    IF ms \notin DOMAIN multisigs THEN "AccountNotInitialized"
    ELSE IF p \notin DOMAIN proposals THEN "AccountNotInitialized"
    ELSE IF ~(proposals[p].multisig = ms) THEN "ConstraintRaw"
    ELSE IF ~(~proposals[p].executed /\ ~proposals[p].cancelled) THEN "AlreadyProcessed"
    ELSE IF ~(proposals[p].proposer = canceller) THEN "NotProposer"
    ELSE "Ok"

cancel_transaction(proposal) == [res |-> "Ok", proposal |-> proposal]

\* CancelOutcome without `close = multisig`
CancelOutcome_NoClose(ms, p, canceller) ==
    LET v == CancelTransaction(ms, p, canceller) IN
    IF v # "Ok" THEN [res |-> v, world |-> World]
    ELSE LET h == cancel_transaction(proposals[p]) IN
         [res |-> "Ok", world |-> [World EXCEPT !.proposals = Store(proposals, p, h.proposal)]]

\* CancelOutcome closing the Multisig account in place of the Proposal
CancelOutcome_CloseMultisig(ms, p, canceller) ==
    LET v == CancelTransaction(ms, p, canceller) IN
    IF v # "Ok" THEN [res |-> v, world |-> World]
    ELSE LET h == cancel_transaction(proposals[p]) IN
         [res |-> "Ok",
          world |-> [World EXCEPT !.multisigs = Close(multisigs, ms),
                                  !.proposals = Close(Store(proposals, p, h.proposal), p)]]

CancelOutcome(ms, p, canceller) ==
    LET v == CancelTransaction(ms, p, canceller) IN
    IF v # "Ok" THEN [res |-> v, world |-> World]
    ELSE LET h == cancel_transaction(proposals[p]) IN
         [res |-> "Ok",
          world |-> [World EXCEPT !.proposals = Close(Store(proposals, p, h.proposal), p)]]

Cancel ==
    \E ms \in MsAddrs, p \in PropAddrs, canceller \in Keys :
        \E o \in {CancelOutcome(ms, p, canceller)} :
        /\ multisigs' = o.world.multisigs
        /\ proposals' = o.world.proposals
        /\ forwarded' = o.world.forwarded
        /\ status' = IF o.res = "Ok" THEN [status EXCEPT ![p] = "cancelled"] ELSE status
        /\ last' = [op |-> "cancel_transaction", res |-> o.res]
        /\ UNCHANGED <<submitted, cpiFailed>>

Next == Create \/ Propose \/ Approve \/ Execute \/ Cancel

Spec == Init /\ [][Next]_vars

\* ----------------------------------------- one Multisig, several Proposals
\* create_multisig by the first key only, so that a single Multisig exists
CreateOne ==
    \E members_in \in SeqsUpTo(Keys, MaxMembers), threshold \in 0..(MaxMembers + 1) :
        \E o \in {CreateOutcome(1, 0, members_in, threshold)} :
        /\ multisigs' = o.world.multisigs
        /\ proposals' = o.world.proposals
        /\ forwarded' = o.world.forwarded
        /\ last' = [op |-> "create_multisig", res |-> o.res]
        /\ UNCHANGED <<status, submitted, cpiFailed>>

\* propose_transaction of the instruction without accounts, offered until the
\* Multisig's proposals_count reaches MaxCount
ProposeMany ==
    \E ms \in MsAddrs, proposer \in Keys :
    \E instruction_data \in {[program_id |-> 1, accounts |-> <<>>, data |-> <<>>]} :
        \E o \in {ProposeOutcome(ms, proposer, instruction_data)},
           p \in {IF ms \in DOMAIN multisigs THEN ProposalAddress(ms) ELSE <<ms, 0>>} :
        /\ o.res = "Ok" => multisigs[ms].proposals_count < MaxCount
        /\ multisigs' = o.world.multisigs
        /\ proposals' = o.world.proposals
        /\ forwarded' = o.world.forwarded
        /\ status' = IF o.res = "Ok" THEN [status EXCEPT ![p] = "pending"] ELSE status
        /\ submitted' = IF o.res = "Ok" THEN Store(submitted, p, instruction_data) ELSE submitted
        /\ last' = [op |-> "propose_transaction", res |-> o.res]
        /\ UNCHANGED cpiFailed

NextCount == CreateOne \/ ProposeMany \/ Approve \/ Execute \/ Cancel

SpecCount == Init /\ [][NextCount]_vars

\* ------------------------------------- create_multisig as a function of
\* the number of distinct members and the threshold
\* Member counts drawn: every small one, and those around 2^8
Counts == (1..MaxSmallCount) \cup ((U8 - 1)..(U8 + 1))

\* threshold: u8
Thresholds == 0..(U8 - 1)

\* Nothing exists, and the arguments of one create_multisig have been drawn:
\* `count` distinct members and a threshold
InitCreate ==
    /\ multisigs = NoAccounts
    /\ proposals = NoAccounts
    /\ status = [p \in PropAddrs |-> "none"]
    /\ submitted = NoAccounts
    /\ forwarded = [p \in PropAddrs |-> <<>>]
    /\ cpiFailed = {}
    /\ last \in [op : {"input"}, res : {"none"}, count : Counts, threshold : Thresholds]

\* create_multisig by the first key on the arguments drawn
CreateDrawn ==
    /\ last.op = "input"
    /\ \E o \in {CreateOutcome(1, 0, [i \in 1..last.count |-> i], last.threshold)} :
        /\ multisigs' = o.world.multisigs
        /\ proposals' = o.world.proposals
        /\ forwarded' = o.world.forwarded
        /\ last' = [last EXCEPT !.op = "create_multisig", !.res = o.res]
        /\ UNCHANGED <<status, submitted, cpiFailed>>

NextCreate == CreateDrawn

SpecCreate == InitCreate /\ [][NextCreate]_vars

\* ============================================================ properties
\* Every remaining_accounts list offered to execute_transaction
AllInfos == SeqsUpTo(Infos, MaxAccounts)

\* The Proposal account at p exists and is neither executed nor cancelled
Pending(p) ==
    p \in DOMAIN proposals /\ ~proposals[p].executed /\ ~proposals[p].cancelled

\* The Multisig a stored Proposal names as its own
Owner(p) == proposals[p].multisig

\* The quorum decision for a stored Proposal against its own Multisig
HasQuorum(p) == ApprovalSetLen(proposals[p]) >= multisigs[Owner(p)].threshold

\* The last instruction processed was `op` and it returned `res`
Did(op, res) == last.op = op /\ last.res = res

\* C1 (state part): an execute_transaction on a stored Proposal whose distinct
\* approvals are fewer than its Multisig's threshold returns NotExecutable and
\* leaves the accounts and the forwarded calls as they were.
C1_BelowQuorum ==
    \A p \in DOMAIN proposals :
        ~HasQuorum(p) =>
            \A caller \in Keys, ra \in AllInfos, cpi_ok \in BOOLEAN :
                LET o == ExecuteOutcome(Owner(p), p, caller, ra, cpi_ok) IN
                o.res = "NotExecutable" /\ o.world = World

\* C1 (step part): a Proposal becomes executed, or a call is forwarded for it,
\* only in a successful execute_transaction step taken in a state where the
\* Proposal is stored and its distinct approvals reach its Multisig's threshold.
C1_ExecutedStep ==
    \A p \in PropAddrs :
        (status'[p] = "executed" /\ status[p] # "executed") \/ forwarded'[p] # forwarded[p]
        => /\ last'.op = "execute_transaction" /\ last'.res = "Ok"
           /\ p \in DOMAIN proposals
           /\ Owner(p) \in DOMAIN multisigs
           /\ HasQuorum(p)

\* C1: a Proposal is executed and its call forwarded only by an
\* execute_transaction taken while its distinct approvals are >= the threshold
\* of its Multisig; below the threshold execute_transaction returns
\* NotExecutable and forwards nothing.
C1_ExecuteOnlyWithQuorum == []C1_BelowQuorum /\ [][C1_ExecutedStep]_vars

\* C1 witness: a Proposal of a Multisig with threshold 2 has been executed and
\* forwarded
C1_Witness ==
    \E p \in PropAddrs :
        /\ status[p] = "executed"
        /\ Len(forwarded[p]) = 1
        /\ multisigs[p[1]].threshold = 2
        /\ Did("execute_transaction", "Ok")

\* C2 (state part): once a Proposal has been executed, no execute_transaction
\* on it, with any accounts, succeeds or forwards anything.
C2_NoSecondExecute ==
    \A p \in PropAddrs :
        /\ Len(forwarded[p]) <= 1
        /\ status[p] = "executed" =>
              \A ms \in MsAddrs, caller \in Keys, ra \in AllInfos, cpi_ok \in BOOLEAN :
                  LET o == ExecuteOutcome(ms, p, caller, ra, cpi_ok) IN
                  o.res # "Ok" /\ o.world = World

\* C2 (step part): the calls forwarded for a Proposal that has one do not change
C2_ForwardedStep ==
    \A p \in PropAddrs : Len(forwarded[p]) >= 1 => forwarded'[p] = forwarded[p]

\* C2: over any sequence of instructions, failed and retried executions
\* included, the stored call of a Proposal is forwarded at most once.
C2_ForwardedAtMostOnce == []C2_NoSecondExecute /\ [][C2_ForwardedStep]_vars

\* C2 witness: a Proposal whose forwarding failed once was executed on a retry,
\* and an execute_transaction after that has failed
C2_Witness ==
    \E p \in PropAddrs :
        /\ status[p] = "executed"
        /\ p \in cpiFailed
        /\ Len(forwarded[p]) = 1
        /\ Did("execute_transaction", "AccountNotInitialized")

\* C3: no identity appears twice in the approvals of a stored Proposal, and an
\* approve_transaction by an identity already in approvals returns
\* AlreadyApproved and leaves every account as it was.
C3_NoDoubleApproval ==
    \A p \in DOMAIN proposals :
        /\ \A i, j \in 1..Len(proposals[p].approvals) :
               proposals[p].approvals[i] = proposals[p].approvals[j] => i = j
        /\ \A approver \in Keys :
               Contains(proposals[p].approvals, approver) =>
                   LET o == ApproveOutcome(Owner(p), p, approver) IN
                   o.res = "AlreadyApproved" /\ o.world = World

\* C3 witness: a second approval by the same member has been refused while the
\* Proposal holds that member's approval
C3_Witness ==
    /\ Did("approve_transaction", "AlreadyApproved")
    /\ \E p \in DOMAIN proposals : Len(proposals[p].approvals) >= 1

\* C4 (state part): every stored Proposal is neither executed nor cancelled,
\* and a Proposal that has been executed or cancelled is not stored.
C4_NoTerminalStored ==
    /\ \A p \in DOMAIN proposals :
           ~proposals[p].executed /\ ~proposals[p].cancelled /\ status[p] = "pending"
    /\ \A p \in PropAddrs :
           status[p] \in {"executed", "cancelled"} => p \notin DOMAIN proposals

\* C4 (step part): the status of a Proposal changes only from none to pending
\* (it is created), or from pending to executed or cancelled, and then the
\* account is closed in that very step; an executed or cancelled Proposal
\* keeps its status and stays closed.
C4_StatusStep ==
    \A p \in PropAddrs :
        /\ status'[p] # status[p] =>
              \/ status[p] = "none" /\ status'[p] = "pending"
              \/ /\ status[p] = "pending"
                 /\ status'[p] \in {"executed", "cancelled"}
                 /\ p \in DOMAIN proposals
                 /\ p \notin DOMAIN proposals'
        /\ status[p] \in {"executed", "cancelled"} => p \notin DOMAIN proposals'

\* C4: a Proposal goes Pending -> Executed or Pending -> Cancelled once, is
\* never Pending again, and is destroyed in the step that makes it terminal:
\* no stored Proposal is executed or cancelled.
C4_TerminalOnceAndDestroyed == []C4_NoTerminalStored /\ [][C4_StatusStep]_vars

\* C4 witness: a Proposal that had reached quorum was cancelled, its account is
\* gone, and an execute_transaction after that has been refused
C4_Witness ==
    \E p \in PropAddrs :
        /\ status[p] = "cancelled"
        /\ p \in cpiFailed
        /\ p \notin DOMAIN proposals
        /\ Did("execute_transaction", "AccountNotInitialized")

\* What approve, execute and cancel return for Proposal p, for every Multisig,
\* caller and account list presented with it
ResultsOn(p) ==
    {ApproveOutcome(ms, p, k) : ms \in MsAddrs, k \in Keys}
        \cup {CancelOutcome(ms, p, k) : ms \in MsAddrs, k \in Keys}
        \cup UNION {{ExecuteOutcome(ms, p, k, ra, cpi_ok) : ra \in AllInfos, cpi_ok \in BOOLEAN}
                      : <<ms, k>> \in MsAddrs \X Keys}

\* C5 as stated: after a Proposal has been executed or cancelled, every
\* approve, execute and cancel on it returns AlreadyProcessed and changes nothing.
C5_AlreadyProcessed ==
    \A p \in PropAddrs :
        status[p] \in {"executed", "cancelled"} =>
            \A o \in ResultsOn(p) : o.res = "AlreadyProcessed" /\ o.world = World

\* C5 as amended: after a Proposal has been executed or cancelled, every
\* approve, execute and cancel on it fails and changes nothing; the error is
\* the host's AccountNotInitialized, because the Proposal account is gone
\* before the AlreadyProcessed constraint is looked at.
C5_FailsAccountGone ==
    \A p \in PropAddrs :
        status[p] \in {"executed", "cancelled"} =>
            \A o \in ResultsOn(p) : o.res = "AccountNotInitialized" /\ o.world = World

\* C5 witness: an approve_transaction on an executed Proposal has been refused
C5_Witness ==
    /\ Did("approve_transaction", "AccountNotInitialized")
    /\ \E p \in PropAddrs : status[p] = "executed" /\ p[1] \in DOMAIN multisigs

\* C6: approve, execute and cancel presented with a Multisig other than the one
\* the Proposal records fail and change nothing, whatever the threshold and
\* members of the Multisig presented.
C6_OwningMultisigOnly ==
    \A p \in DOMAIN proposals :
        \A ms \in MsAddrs \ {Owner(p)}, k \in Keys :
            /\ ApproveOutcome(ms, p, k).res # "Ok"
            /\ ApproveOutcome(ms, p, k).world = World
            /\ CancelOutcome(ms, p, k).res # "Ok"
            /\ CancelOutcome(ms, p, k).world = World
            /\ \A ra \in AllInfos, cpi_ok \in BOOLEAN :
                   LET o == ExecuteOutcome(ms, p, k, ra, cpi_ok) IN
                   o.res # "Ok" /\ o.world = World

\* C6 witness: execute_transaction was refused for a Proposal short of its own
\* Multisig's threshold while another Multisig exists whose threshold it meets
C6_Witness ==
    /\ Did("execute_transaction", "ConstraintRaw")
    /\ \E p \in DOMAIN proposals, ms \in DOMAIN multisigs :
           /\ ms # Owner(p)
           /\ ~HasQuorum(p)
           /\ ApprovalSetLen(proposals[p]) >= multisigs[ms].threshold

\* remaining_accounts list ra names, position for position, the accounts of the
\* instruction stored in Proposal p
Matches(p, ra) ==
    /\ Len(ra) = Len(proposals[p].instruction.accounts)
    /\ \A i \in 1..Len(ra) : ra[i].key = proposals[p].instruction.accounts[i].pubkey

\* C7: execute_transaction on a Pending Proposal with quorum, given a
\* remaining_accounts list that differs from the stored accounts in length or
\* in the key at some position, returns AccountMismatch, forwards nothing and
\* leaves the Proposal stored, Pending and with the same approvals.
C7_AccountMismatch ==
    \A p \in DOMAIN proposals :
        Pending(p) /\ HasQuorum(p) =>
            \A ra \in AllInfos, k \in Keys, cpi_ok \in BOOLEAN :
                ~Matches(p, ra) =>
                    LET o == ExecuteOutcome(Owner(p), p, k, ra, cpi_ok) IN
                    o.res = "AccountMismatch" /\ o.world = World

\* C7 witness: execute_transaction returned AccountMismatch for a Proposal with
\* quorum that stores two accounts, and the Proposal is still Pending
C7_Witness ==
    /\ Did("execute_transaction", "AccountMismatch")
    /\ \E p \in DOMAIN proposals :
           Pending(p) /\ HasQuorum(p) /\ Len(proposals[p].instruction.accounts) = 2

\* C8 (state part): the instruction a stored Proposal holds, and every call
\* forwarded for a Proposal, is the instruction_data given to
\* propose_transaction for it: target, accounts with both flags, payload.  And
\* whatever flags the remaining_accounts carry, a successful execution
\* forwards that instruction.
C8_Verbatim ==
    /\ \A p \in DOMAIN proposals : proposals[p].instruction = submitted[p]
    /\ \A p \in PropAddrs :
           \A i \in 1..Len(forwarded[p]) : forwarded[p][i].instruction = submitted[p]
    /\ \A p \in DOMAIN proposals :
           Pending(p) /\ HasQuorum(p) =>
               \A ra \in AllInfos, k \in Keys :
                   Matches(p, ra) =>
                       LET o == ExecuteOutcome(Owner(p), p, k, ra, TRUE) IN
                       /\ Len(o.world.forwarded[p]) = 1
                       /\ o.world.forwarded[p][1].instruction = submitted[p]

\* C8 (step part): no step changes the instruction of a Proposal that stays stored
C8_DescriptorStep ==
    \A p \in DOMAIN proposals :
        p \in DOMAIN proposals' => proposals'[p].instruction = proposals[p].instruction

\* C8: the call a successful execute_transaction forwards is exactly the
\* descriptor submitted to propose_transaction; approvals and failed executes or
\* cancels do not change it, and the flags of the supplied account contexts do
\* not enter the forwarded call.
C8_ForwardsSubmittedCall == []C8_Verbatim /\ [][C8_DescriptorStep]_vars

\* C8 witness: the two-account instruction, which stores a writable and a
\* signer account, has been forwarded
C8_Witness ==
    /\ Did("execute_transaction", "Ok")
    /\ \E p \in PropAddrs :
           /\ Len(forwarded[p]) = 1
           /\ Len(forwarded[p][1].instruction.accounts) = 2
           /\ forwarded[p][1].instruction.accounts[1].is_writable
           /\ forwarded[p][1].instruction.accounts[2].is_signer

\* C9 (state part): when the host refuses the call, execute_transaction fails
\* and changes nothing; and a Proposal whose forwarding has failed, as long as
\* it has not been executed or cancelled since, is stored, Pending, has quorum
\* and can be executed by a call the host accepts.
C9_FailedForward ==
    /\ \A p \in DOMAIN proposals :
           Pending(p) /\ HasQuorum(p) =>
               \A ra \in AllInfos, k \in Keys :
                   Matches(p, ra) =>
                       LET o == ExecuteOutcome(Owner(p), p, k, ra, FALSE) IN
                       o.res = "CpiFailed" /\ o.world = World
    /\ \A p \in cpiFailed :
           status[p] = "pending" =>
               /\ Pending(p)
               /\ HasQuorum(p)
               /\ \E ra \in AllInfos :
                      \A k \in Keys : ExecuteOutcome(Owner(p), p, k, ra, TRUE).res = "Ok"

\* C9 (step part): a step in which the forwarding fails changes no account, no
\* status and no forwarded call
C9_FailedForwardStep ==
    (last'.op = "execute_transaction" /\ last'.res = "CpiFailed")
        => UNCHANGED <<multisigs, proposals, forwarded, status>>

\* C9: a failure of the host's forwarding step fails execute_transaction as a
\* whole; the Proposal stays stored and Pending with the approvals it had, and a
\* later execute_transaction can still succeed.
C9_FailedForwardIsAtomic == []C9_FailedForward /\ [][C9_FailedForwardStep]_vars

\* C9 witness: a Proposal whose forwarding had failed has now been executed
C9_Witness ==
    /\ Did("execute_transaction", "Ok")
    /\ \E p \in cpiFailed : status[p] = "executed" /\ Len(forwarded[p]) = 1

\* C10 (state part): for a Pending Proposal with quorum, matching
\* remaining_accounts and a call the host accepts, execute_transaction
\* succeeds for every caller, forwards one call, closes the Proposal and leaves
\* every Multisig, proposals_count included, as it was.
C10_Executable ==
    \A p \in DOMAIN proposals :
        Pending(p) /\ HasQuorum(p) =>
            \A ra \in AllInfos, k \in Keys :
                Matches(p, ra) =>
                    LET o == ExecuteOutcome(Owner(p), p, k, ra, TRUE) IN
                    /\ o.res = "Ok"
                    /\ Len(o.world.forwarded[p]) = Len(forwarded[p]) + 1
                    /\ p \notin DOMAIN o.world.proposals
                    /\ o.world.multisigs = multisigs

\* C10 (step part): a successful execute_transaction step takes one Proposal
\* from pending to executed, closes it and changes no Multisig
C10_ExecuteStep ==
    (last'.op = "execute_transaction" /\ last'.res = "Ok")
        => /\ multisigs' = multisigs
           /\ \E p \in DOMAIN proposals :
                  /\ status[p] = "pending" /\ status'[p] = "executed"
                  /\ p \notin DOMAIN proposals'
                  /\ Len(forwarded'[p]) = Len(forwarded[p]) + 1

\* C10: with quorum, matching account contexts and a forwarding step that
\* succeeds, execute_transaction on a Pending Proposal succeeds for any
\* caller: the call is forwarded, the Proposal is executed and reclaimed, and
\* proposals_count is unchanged.
C10_AnyCallerExecutes == []C10_Executable /\ [][C10_ExecuteStep]_vars

\* C10 witness: a Proposal of a Multisig that not every key is a member of has
\* been executed, and the Multisig's proposals_count is still 1
C10_Witness ==
    /\ Did("execute_transaction", "Ok")
    /\ \E p \in PropAddrs :
           /\ status[p] = "executed"
           /\ multisigs[p[1]].proposals_count = 1
           /\ \E k \in Keys : ~Contains(multisigs[p[1]].members, k)

\* C11 (state part): on a Pending Proposal cancel_transaction returns Ok for
\* the proposer, closing the Proposal and leaving the record of forwarded calls
\* as it was, and NotProposer for every other key, leaving every account as it
\* was; nothing has been forwarded for a cancelled Proposal.
C11_ProposerOnly ==
    /\ \A p \in DOMAIN proposals :
           Pending(p) =>
               \A k \in Keys :
                   LET o == CancelOutcome(Owner(p), p, k) IN
                   IF k = proposals[p].proposer
                   THEN /\ o.res = "Ok"
                        /\ o.world.forwarded = forwarded
                        /\ o.world.multisigs = multisigs
                        /\ p \notin DOMAIN o.world.proposals
                   ELSE /\ o.res = "NotProposer"
                        /\ o.world = World
    /\ \A p \in PropAddrs : status[p] = "cancelled" => forwarded[p] = <<>>

\* C11 (step part): a cancel_transaction step forwards nothing, a step that
\* returns NotProposer changes no account, and no later step forwards the
\* call of a cancelled Proposal or brings the Proposal back
C11_CancelStep ==
    /\ last'.op = "cancel_transaction" => forwarded' = forwarded
    /\ (last'.op = "cancel_transaction" /\ last'.res = "NotProposer")
           => proposals' = proposals /\ multisigs' = multisigs /\ status' = status
    /\ \A p \in PropAddrs :
           status[p] = "cancelled"
               => /\ status'[p] = "cancelled"
                  /\ forwarded'[p] = <<>>
                  /\ p \notin DOMAIN proposals'

\* C11: cancel_transaction on a Pending Proposal succeeds only for the
\* proposer; any other caller, other members included, gets NotProposer and the
\* Proposal stays Pending with its approvals.  A successful cancel makes no
\* external call and the stored call of a cancelled Proposal is never forwarded.
C11_CancelOnlyByProposer == []C11_ProposerOnly /\ [][C11_CancelStep]_vars

\* C11 witness: a member other than the proposer has just been refused with
\* NotProposer on a Pending Proposal that already has quorum
C11_Witness ==
    /\ Did("cancel_transaction", "NotProposer")
    /\ \E p \in DOMAIN proposals :
           /\ Pending(p) /\ HasQuorum(p)
           /\ \E k \in Keys : /\ k # proposals[p].proposer
                              /\ Contains(multisigs[Owner(p)].members, k)

\* C12: propose_transaction by a key that is not a member of the Multisig
\* returns NotMember, creates no Proposal and leaves proposals_count as it
\* was; approve_transaction on a Pending Proposal by a key that is not a member
\* of the owning Multisig returns NotMember and leaves the approvals as they were.
C12_NonMemberRejected ==
    /\ \A ms \in DOMAIN multisigs, k \in Keys, i \in Instructions :
           ~Contains(multisigs[ms].members, k) =>
               LET o == ProposeOutcome(ms, k, i) IN
               /\ o.res = "NotMember"
               /\ o.world.proposals = proposals
               /\ o.world.multisigs[ms].proposals_count = multisigs[ms].proposals_count
               /\ o.world = World
    /\ \A p \in DOMAIN proposals, k \in Keys :
           Pending(p) /\ ~Contains(multisigs[Owner(p)].members, k) =>
               LET o == ApproveOutcome(Owner(p), p, k) IN
               /\ o.res = "NotMember"
               /\ o.world.proposals[p].approvals = proposals[p].approvals
               /\ o.world = World

\* C12 witness: a key outside the Multisig has been refused by
\* propose_transaction, and that Multisig holds a Pending Proposal the same key
\* is refused on by approve_transaction
C12_Witness ==
    /\ Did("propose_transaction", "NotMember")
    /\ \E p \in DOMAIN proposals, k \in Keys :
           /\ Pending(p)
           /\ ~Contains(multisigs[Owner(p)].members, k)
           /\ multisigs[Owner(p)].proposals_count = 1
           /\ ApproveOutcome(Owner(p), p, k).res = "NotMember"

\* C13 (state part): a Multisig is created with proposals_count 0; the
\* addresses ever used under a Multisig are exactly those of the counter values
\* below its proposals_count; a successful propose_transaction creates the
\* Proposal at the address of the current counter value, which was never used,
\* and adds one to the counter; approve and cancel leave every Multisig as it was.
C13_Counter ==
    /\ \A k \in Keys, n \in Nonces, m \in SeqsUpTo(Keys, MaxMembers), t \in 0..(MaxMembers + 1) :
           LET o == CreateOutcome(k, n, m, t) IN
           o.res = "Ok" => o.world.multisigs[<<k, n>>].proposals_count = 0
    /\ \A p \in PropAddrs :
           status[p] # "none" <=>
               (p[1] \in DOMAIN multisigs /\ p[2] < multisigs[p[1]].proposals_count)
    /\ \A p \in DOMAIN proposals : p \in PropAddrs /\ status[p] = "pending" /\ Owner(p) = p[1]
    /\ \A ms \in DOMAIN multisigs, k \in Keys, i \in Instructions :
           LET o == ProposeOutcome(ms, k, i)
               c == multisigs[ms].proposals_count
           IN  IF o.res = "Ok"
               THEN /\ o.world.multisigs[ms].proposals_count = c + 1
                    /\ DOMAIN o.world.proposals = DOMAIN proposals \cup {<<ms, c>>}
                    /\ <<ms, c>> \notin DOMAIN proposals
                    /\ c < MaxCount => status[<<ms, c>>] = "none"
               ELSE o.world = World
    /\ \A ms \in MsAddrs, p \in PropAddrs, k \in Keys :
           /\ ApproveOutcome(ms, p, k).world.multisigs = multisigs
           /\ CancelOutcome(ms, p, k).world.multisigs = multisigs

\* C13 (step part): a Multisig's proposals_count changes only in a successful
\* propose_transaction step, by one, and that step creates the Proposal at the
\* address of the old counter value, never used before; an address once used
\* stays used
C13_CounterStep ==
    /\ \A ms \in DOMAIN multisigs :
           /\ ms \in DOMAIN multisigs'
           /\ multisigs'[ms].proposals_count >= multisigs[ms].proposals_count
           /\ multisigs'[ms].proposals_count # multisigs[ms].proposals_count
                  => /\ last'.op = "propose_transaction" /\ last'.res = "Ok"
                     /\ multisigs'[ms].proposals_count = multisigs[ms].proposals_count + 1
                     /\ status[<<ms, multisigs[ms].proposals_count>>] = "none"
                     /\ status'[<<ms, multisigs[ms].proposals_count>>] = "pending"
                     /\ <<ms, multisigs[ms].proposals_count>> \in DOMAIN proposals'
    /\ (last'.op = "propose_transaction" /\ last'.res = "Ok")
           => \E ms \in DOMAIN multisigs :
                  multisigs'[ms].proposals_count = multisigs[ms].proposals_count + 1
    /\ \A ms \in DOMAIN multisigs' \ DOMAIN multisigs : multisigs'[ms].proposals_count = 0
    /\ \A p \in PropAddrs : status[p] # "none" => status'[p] # "none"

\* C13: proposals_count starts at 0, grows by exactly one on each successful
\* propose_transaction, is changed by nothing else and never decreases; each
\* new Proposal is addressed by the counter value before the increment, so no
\* two Proposals ever created under one Multisig, executed and cancelled ones
\* included, share an address.
C13_CounterAddressesProposals == []C13_Counter /\ [][C13_CounterStep]_vars

\* C13 witness: a second Proposal has just been created under a Multisig whose
\* first Proposal was executed or cancelled, at the address of counter value 1
C13_Witness ==
    /\ Did("propose_transaction", "Ok")
    /\ \E ms \in DOMAIN multisigs :
           /\ multisigs[ms].proposals_count = 2
           /\ status[<<ms, 0>>] \in {"executed", "cancelled"}
           /\ <<ms, 0>> \notin DOMAIN proposals
           /\ Pending(<<ms, 1>>)

\* C14: every stored Multisig has 1 <= threshold <= number of members; a
\* create_multisig at a free address with a non-empty member list and a
\* threshold of 0 or above the number of distinct members returns
\* InvalidThreshold and stores nothing.
C14_ThresholdInRange ==
    /\ \A ms \in DOMAIN multisigs :
           /\ 1 <= multisigs[ms].threshold
           /\ multisigs[ms].threshold <= Len(multisigs[ms].members)
           /\ multisigs[ms].threshold <= Cardinality(Range(multisigs[ms].members))
    /\ \A k \in Keys, n \in Nonces, m \in SeqsUpTo(Keys, MaxMembers), t \in 0..(MaxMembers + 1) :
           (<<k, n>> \notin DOMAIN multisigs /\ m # <<>>) =>
               LET o == CreateOutcome(k, n, m, t) IN
               /\ (t = 0 \/ t > Cardinality(Range(m)))
                      => o.res = "InvalidThreshold" /\ o.world = World
               /\ o.res = "Ok"
                      => /\ 1 <= o.world.multisigs[<<k, n>>].threshold
                         /\ o.world.multisigs[<<k, n>>].threshold <= Cardinality(Range(m))

\* C14 witness: a create_multisig has been refused with InvalidThreshold
\* while a Multisig whose threshold equals its two members is stored and a
\* list naming one member twice is refused a threshold of 2
C14_Witness ==
    /\ Did("create_multisig", "InvalidThreshold")
    /\ \E ms \in DOMAIN multisigs :
           multisigs[ms].threshold = 2 /\ Len(multisigs[ms].members) = 2
    /\ \E k \in Keys, n \in Nonces :
           CreateOutcome(k, n, <<1, 1>>, 2).res = "InvalidThreshold"

\* A sequence of keys in strictly increasing order
StrictlyIncreasing(s) == \A i \in 1..(Len(s) - 1) : s[i] < s[i + 1]

SamePolicies(after) ==
    /\ DOMAIN after = DOMAIN multisigs
    /\ \A ms \in DOMAIN multisigs :
           /\ after[ms].creator = multisigs[ms].creator
           /\ after[ms].nonce = multisigs[ms].nonce
           /\ after[ms].members = multisigs[ms].members
           /\ after[ms].threshold = multisigs[ms].threshold

\* C16 (state part): whatever the accounts and arguments it is called with, and
\* whether it succeeds or fails, each of propose_transaction,
\* approve_transaction, execute_transaction and cancel_transaction leaves
\* every Multisig stored with its creator, nonce, members and threshold
C16_Frame ==
    /\ \A ms \in MsAddrs, k \in Keys, i \in Instructions :
           SamePolicies(ProposeOutcome(ms, k, i).world.multisigs)
    /\ \A ms \in MsAddrs, p \in PropAddrs, k \in Keys :
           /\ SamePolicies(ApproveOutcome(ms, p, k).world.multisigs)
           /\ SamePolicies(CancelOutcome(ms, p, k).world.multisigs)
           /\ \A ra \in AllInfos, ok \in BOOLEAN :
                  SamePolicies(ExecuteOutcome(ms, p, k, ra, ok).world.multisigs)

\* C16 (step part): every step keeps every stored Multisig, with the same
\* creator, nonce, members and threshold; only proposals_count may differ
C16_FrameStep ==
    \A ms \in DOMAIN multisigs :
        /\ ms \in DOMAIN multisigs'
        /\ multisigs'[ms] = [multisigs[ms] EXCEPT !.proposals_count = multisigs'[ms].proposals_count]

\* C16: once created, a Multisig's members, threshold, creator and nonce are
\* never changed by any sequence of propose, approve, execute and cancel,
\* successful or failed; proposals_count is the only field that changes, and
\* the Multisig is never destroyed.
C16_PolicyImmutable == []C16_Frame /\ [][C16_FrameStep]_vars

\* C16 witness: under a Multisig of two members and threshold 2, one Proposal
\* has been proposed, approved and executed and another proposed and cancelled
C16_Witness ==
    /\ Did("cancel_transaction", "Ok")
    /\ \E ms \in DOMAIN multisigs :
           /\ multisigs[ms].members = <<1, 2>>
           /\ multisigs[ms].threshold = 2
           /\ multisigs[ms].creator = ms[1] /\ multisigs[ms].nonce = ms[2]
           /\ multisigs[ms].proposals_count = 2
           /\ status[<<ms, 0>>] = "executed"
           /\ status[<<ms, 1>>] = "cancelled"

\* s is an initial part of t
IsPrefix(s, t) == Len(s) <= Len(t) /\ \A i \in 1..Len(s) : s[i] = t[i]

\* C17 (state part): on a Pending Proposal every member who has not approved
\* is accepted, whatever approvals are already there, and is appended; for two
\* distinct such members the handler applied in either order returns Ok twice
\* and gives Proposals that differ at most in the order of the approvals, with
\* the same approval set and the same quorum decision.
C17_Commute ==
    \A p \in DOMAIN proposals :
        Pending(p) =>
            LET members == multisigs[Owner(p)].members
                fresh == {k \in Keys : Contains(members, k) /\ ~Contains(proposals[p].approvals, k)}
            IN  /\ \A a \in fresh :
                       LET o == ApproveOutcome(Owner(p), p, a) IN
                       /\ o.res = "Ok"
                       /\ o.world.proposals[p].approvals = Append(proposals[p].approvals, a)
                /\ \A a \in fresh : \A b \in fresh \ {a} :
                       LET ha == approve_transaction(proposals[p], a)
                           hb == approve_transaction(proposals[p], b)
                       IN  /\ ha.res = "Ok" /\ hb.res = "Ok"
                           /\ LET hab == approve_transaction(ha.proposal, b)
                                  hba == approve_transaction(hb.proposal, a)
                              IN  /\ hab.res = "Ok" /\ hba.res = "Ok"
                                  /\ Range(hab.proposal.approvals) = Range(hba.proposal.approvals)
                                  /\ Range(hab.proposal.approvals)
                                         = Range(proposals[p].approvals) \cup {a, b}
                                  /\ [hab.proposal EXCEPT !.approvals = <<>>]
                                         = [hba.proposal EXCEPT !.approvals = <<>>]
                                  /\ (ApprovalSetLen(hab.proposal) >= multisigs[Owner(p)].threshold)
                                         <=> (ApprovalSetLen(hba.proposal) >= multisigs[Owner(p)].threshold)

\* C17 (step part): as long as a Proposal stays stored, the approvals it had
\* remain, in place, at the front of its approvals
C17_AppendOnly ==
    \A p \in DOMAIN proposals :
        p \in DOMAIN proposals' => IsPrefix(proposals[p].approvals, proposals'[p].approvals)

\* C17: approvals are append-only and commute: for a Pending Proposal and two
\* distinct members, approving in either order succeeds twice and gives the
\* same approval set and the same executable decision; no operation removes
\* an identity from the approvals of a Pending Proposal.
C17_ApprovalsCommute == []C17_Commute /\ [][C17_AppendOnly]_vars

\* C17 witness: the second of two members has just approved, the higher key
\* first, and the Proposal has reached its threshold of 2 with it
C17_Witness ==
    /\ Did("approve_transaction", "Ok")
    /\ \E p \in DOMAIN proposals :
           /\ Pending(p)
           /\ proposals[p].approvals = <<2, 1>>
           /\ multisigs[Owner(p)].threshold = 2
           /\ HasQuorum(p)

\* C18: execute_transaction on a stored Proposal, presented with its own
\* Multisig, reports the first precondition that fails in the order status,
\* quorum, length of the account list, identity at each position; so below
\* quorum with an account list that does not match the result is
\* NotExecutable, not AccountMismatch.
C18_FirstFailingCheck ==
    \A p \in DOMAIN proposals, caller \in Keys, ra \in AllInfos, cpi_ok \in BOOLEAN :
        LET o == ExecuteOutcome(Owner(p), p, caller, ra, cpi_ok)
            stored == proposals[p].instruction.accounts
        IN  /\ o.res =
                   IF proposals[p].executed \/ proposals[p].cancelled THEN "AlreadyProcessed"
                   ELSE IF ~HasQuorum(p) THEN "NotExecutable"
                   ELSE IF Len(ra) # Len(stored) THEN "AccountMismatch"
                   ELSE IF \E i \in 1..Len(ra) : ra[i].key # stored[i].pubkey
                   THEN "AccountMismatch"
                   ELSE IF cpi_ok THEN "Ok" ELSE "CpiFailed"
            /\ (~HasQuorum(p) /\ ~Matches(p, ra)) => o.res = "NotExecutable"

\* C18 witness: execute_transaction has returned NotExecutable on a Pending
\* Proposal that stores two accounts and has one approval of the two its
\* Multisig asks for, so that the empty account list fails both the quorum and
\* the length check
C18_Witness ==
    /\ Did("execute_transaction", "NotExecutable")
    /\ \E p \in DOMAIN proposals :
           /\ Pending(p)
           /\ Len(proposals[p].instruction.accounts) = 2
           /\ Len(proposals[p].approvals) = 1
           /\ multisigs[Owner(p)].threshold = 2
           /\ ~Matches(p, <<>>)
           /\ ExecuteOutcome(Owner(p), p, 1, <<>>, TRUE).res = "NotExecutable"

\* C19: for every stored Proposal the owning Multisig is stored, the proposer
\* and every approver are members of it, and there are at most as many
\* approvals as members; so the approvals counted towards the quorum are
\* approvals by members.
C19_ProposerAndApproversAreMembers ==
    \A p \in DOMAIN proposals :
        /\ Owner(p) \in DOMAIN multisigs
        /\ LET members == multisigs[Owner(p)].members IN
           /\ Contains(members, proposals[p].proposer)
           /\ \A i \in 1..Len(proposals[p].approvals) : Contains(members, proposals[p].approvals[i])
           /\ Range(proposals[p].approvals) \subseteq Range(members)
           /\ Len(proposals[p].approvals) <= Len(members)
           /\ ApprovalSetLen(proposals[p]) <= Cardinality(Range(members))

\* C19 witness: a Proposal of a Multisig with a single member, the higher key,
\* holds that member's approval, after the other key was refused
C19_Witness ==
    /\ Did("approve_transaction", "NotMember")
    /\ \E p \in DOMAIN proposals :
           /\ multisigs[Owner(p)].members = <<2>>
           /\ proposals[p].proposer = 2
           /\ proposals[p].approvals = <<2>>
           /\ HasQuorum(p)

\* C20: create_multisig never rejects a valid policy: given any number n >= 1
\* of distinct members and a threshold t with 1 <= t <= n it returns Ok and the
\* Multisig is stored with threshold t, and it returns InvalidThreshold exactly
\* when t = 0 or t > n, for every n, those of 2^8 and above included.
C20_NeverRejectsValidPolicy ==
    last.op = "create_multisig" =>
        /\ (1 <= last.threshold /\ last.threshold <= last.count)
               => /\ last.res = "Ok"
                  /\ <<1, 0>> \in DOMAIN multisigs
                  /\ multisigs[<<1, 0>>].threshold = last.threshold
        /\ last.res = "InvalidThreshold"
               <=> (last.threshold = 0 \/ last.threshold > last.count)











====
